---------------------------- MODULE Spec2Model ----------------------------
(***************************************************************************)
(* Model of pyutils/lcrimageutils/mdl.py: the 4-connected clump labeller   *)
(* (clump/_clump), the clump size helpers (clumpsizes/clumpsizeimg) and    *)
(* the reverse index ValueIndexes (__init__, _valndxFuncN, getIndexes).    *)
(*                                                                         *)
(* Arrays are 0-based functions, as in the source.  Quantities that the    *)
(* source stores in uint32 cells next to values at or above 2^32 are kept  *)
(* as two base-65536 limbs <<hi, lo>> (value hi * 65536 + lo).             *)
(*                                                                         *)
(* The arrays given to ValueIndexes have an integer dtype and at least one *)
(* element; nullVals is the set of its elements.  numpy is the numpy the   *)
(* module was written for (it has numpy.int, a boolean index may be        *)
(* shorter than the indexed array, an out of range integer stored into a   *)
(* uint32 array wraps).                                                    *)
(***************************************************************************)
EXTENDS Integers, Sequences, FiniteSets, TLC

(***************************************************************************)
(* Bounds of the model.                                                    *)
(***************************************************************************)
MaxY == 2
MaxX == 2
MaxPixels == 4
MaxVal == 2
MaxStartId == 1
MaxRank == 3
MaxDim == 2
MaxElems == 4
MaxLabelId == 2
MaxBins == 2

(***************************************************************************)
(* Two-limb naturals.                                                      *)
(***************************************************************************)
LimbBase == 65536

Big(n) == <<n \div LimbBase, n % LimbBase>>

BigZero == <<0, 0>>

BigInc(n) == IF n[2] = LimbBase - 1 THEN <<n[1] + 1, 0>> ELSE <<n[1], n[2] + 1>>

BigAddSmall(n, k) == <<n[1] + ((n[2] + k) \div LimbBase), (n[2] + k) % LimbBase>>

BigLt(a, b) == a[1] < b[1] \/ (a[1] = b[1] /\ a[2] < b[2])

BigLe(a, b) == a = b \/ BigLt(a, b)

BigAdd(a, b) == <<a[1] + b[1] + ((a[2] + b[2]) \div LimbBase), (a[2] + b[2]) % LimbBase>>

\* a - b for a >= b
BigSub(a, b) ==
    IF a[2] >= b[2] THEN <<a[1] - b[1], a[2] - b[2]>>
    ELSE <<a[1] - b[1] - 1, a[2] + LimbBase - b[2]>>

\* storing a Python/int64 integer into a numpy uint32 cell keeps it modulo 2^32
ToUint32(n) == <<n[1] % LimbBase, n[2]>>

\* 2^32 - 1
maxUint32 == <<LimbBase - 1, LimbBase - 1>>

VARIABLES
    \* ---- clump / _clump ----
    input,        \* the data array (rank 2: [0..ysize-1 -> [0..xsize-1 -> Int]])
    inShape,      \* input.shape
    valid,        \* the mask array
    validShape,   \* valid.shape
    startId,      \* the clumpId argument of clump()
    ysize, xsize, \* (ysize, xsize) = input.shape
    output,       \* the uint32 label array
    search_list,  \* the preallocated stack, xsize*ysize rows of <<y, x>>
    searchIdx,
    clumpId,
    y, x,         \* outer scan position
    val,          \* value of the seed pixel
    sy, sx,       \* popped pixel
    cy, cx,       \* window position
    pc,           \* "call", "scan", "pop", "cell", "done", "error"
    err,          \* the exception raised, "none" if none
    \* ---- ValueIndexes ----
    a,            \* the array, a function of its coordinates (0-based tuples)
    aShape,       \* a.shape, [0 .. ndim-1 -> dimension size]
    nullVals,     \* self.nullVals
    values,       \* self.values
    counts,       \* self.counts
    start,        \* self.start
    end,          \* self.end
    nDims,        \* self.nDims
    indexes,      \* self.indexes, rows of [0 .. ndim-1 -> coordinate]
    valLU,        \* self.valLU, uint32 cells
    currentIndex, \* per value cursor into indexes
    curridx,      \* the coordinate the traversal is at
    viPc,         \* "new", "fill", "built", "error"
    viErr,        \* the exception raised by the constructor, "none" if none
    queried,      \* TRUE once getIndexes has been called
    qval,         \* the argument of the last getIndexes call
    ndx,          \* its result, [0 .. nDims-1 -> sequence of coordinates]
    \* ---- clumpsizes / clumpsizeimg ----
    clumps,       \* the clump id image
    nullVal,      \* the designated null label
    sizes,        \* the table clumpsizes returns
    sizeimg,      \* the image clumpsizeimg returns
    szPc,         \* "call", "sized", "imaged", "error"
    szErr,        \* the exception raised, "none" if none
    \* ---- ValueIndexes.__init__ on an array given by its histogram ----
    hBins,        \* the non-empty bins: [0 .. n-1 -> [val, count]], ascending val
    hNulls,       \* self.nullVals
    hValues,      \* self.values
    hCounts,      \* self.counts
    hStart,       \* self.start
    hEnd,         \* self.end
    hRows,        \* the number of rows of self.indexes
    hLookups,     \* the size of self.valLU
    hCursor,      \* currentIndex, uint32 cells
    hRow,         \* the row of indexes the last coordinate was written to
    hPc,          \* "new", "fill", "built", "error"
    hErr          \* the exception raised, "none" if none

clumpVars == <<input, inShape, valid, validShape, startId, ysize, xsize, output,
               search_list, searchIdx, clumpId, y, x, val, sy, sx, cy, cx, pc, err>>

viVars == <<a, aShape, nullVals, values, counts, start, end, nDims, indexes, valLU,
            currentIndex, curridx, viPc, viErr, queried, qval, ndx>>

sizeVars == <<clumps, nullVal, sizes, sizeimg, szPc, szErr>>

histVars == <<hBins, hNulls, hValues, hCounts, hStart, hEnd, hRows, hLookups, hCursor,
              hRow, hPc, hErr>>

vars == <<clumpVars, viVars, sizeVars, histVars>>

(***************************************************************************)
(* clump(input, valid, clumpId) and _clump                                 *)
(***************************************************************************)
\* a row of numpy.empty that has not been written yet
Uninit == <<-1, -1>>

Rows(shape) == 0 .. (shape[1] - 1)

Cols(shape) == 0 .. (shape[2] - 1)

Array2D(shape, S) == [Rows(shape) -> [Cols(shape) -> S]]

\* faulty variant: the mask is not consulted
ReadValidAlways(yy, xx) == {"true"}

\* valid[yy, xx].  Inside the array the element; outside it either the
\* IndexError of the interpreted build or whatever the unchecked read of the
\* compiled build finds.  A mask that is not 2-d cannot be indexed with two
\* subscripts.
ReadValid(yy, xx) ==
    IF Len(validShape) # 2 THEN {"IndexError"}
    ELSE IF yy < validShape[1] /\ xx < validShape[2]
         THEN {IF valid[yy][xx] THEN "true" ELSE "false"}
         ELSE {"IndexError", "true", "false"}

\* the clamped 3x3 window around (sy, sx)
Tlx(px) == IF px - 1 < 0 THEN 0 ELSE px - 1

Tly(py) == IF py - 1 < 0 THEN 0 ELSE py - 1

Brx(px) == IF px + 1 > xsize - 1 THEN xsize - 1 ELSE px + 1

Bry(py) == IF py + 1 > ysize - 1 THEN ysize - 1 ELSE py + 1

\* faulty variant: the window scan without the filter (8-connected)
FourNeighbourAll(py, px, qy, qx) == TRUE

\* the '4 neighbour search' filter of the window scan
FourNeighbour(py, px, qy, qx) == qy = py \/ qx = px

\* output[py, px] == 0
Unvisited(py, px) == output[py][px] = BigZero

\* output[py, px] = clumpId
MarkVisited(py, px) == [output EXCEPT ![py][px] = ToUint32(clumpId)]

\* faulty variant: an id is skipped after each region
NextClumpIdSkip(id) == BigInc(BigInc(id))

\* the value _clump hands back after a completed region
NextClumpId(id) == BigInc(id)

\* the for y / for x loops move on to the next pixel, or the scan is over
ScanAdvance ==
    IF x + 1 < xsize THEN /\ x' = x + 1
                          /\ y' = y
                          /\ pc' = "scan"
    ELSE IF y + 1 < ysize THEN /\ x' = 0
                               /\ y' = y + 1
                               /\ pc' = "scan"
    ELSE /\ UNCHANGED <<x, y>>
         /\ pc' = "done"

ClumpCall ==
    /\ UNCHANGED <<viVars, sizeVars, histVars>>
    /\ pc = "call"
    /\ UNCHANGED <<input, inShape, valid, validShape, startId, val, sy, sx, cy, cx>>
    /\ IF Len(inShape) # 2
       THEN \* (ysize, xsize) = input.shape does not unpack
            /\ pc' = "error"
            /\ err' = "ValueError"
            /\ UNCHANGED <<ysize, xsize, output, search_list, searchIdx, clumpId, y, x>>
       ELSE /\ ysize' = inShape[1]
            /\ xsize' = inShape[2]
            /\ output' = [r \in Rows(inShape) |-> [c \in Cols(inShape) |-> BigZero]]
            /\ search_list' = [i \in 0 .. (inShape[1] * inShape[2] - 1) |-> Uninit]
            /\ clumpId' = startId
            /\ searchIdx' = 0
            /\ y' = 0
            /\ x' = 0
            /\ pc' = "scan"
            /\ err' = "none"

ScanPixel ==
    /\ UNCHANGED <<viVars, sizeVars, histVars>>
    /\ pc = "scan"
    /\ UNCHANGED <<input, inShape, valid, validShape, startId, ysize, xsize,
                   clumpId, sy, sx, cy, cx>>
    /\ \E r \in ReadValid(y, x) :
         IF r = "IndexError"
         THEN /\ pc' = "error"
              /\ err' = "IndexError"
              /\ UNCHANGED <<output, search_list, searchIdx, y, x, val>>
         ELSE IF r = "true" /\ Unvisited(y, x)
         THEN /\ val' = input[y][x]
              /\ search_list' = [search_list EXCEPT ![0] = <<y, x>>]
              /\ searchIdx' = 1
              /\ output' = MarkVisited(y, x)
              /\ pc' = "pop"
              /\ err' = "none"
              /\ UNCHANGED <<y, x>>
         ELSE /\ ScanAdvance
              /\ err' = "none"
              /\ UNCHANGED <<output, search_list, searchIdx, val>>

PopPixel ==
    /\ UNCHANGED <<viVars, sizeVars, histVars>>
    /\ pc = "pop"
    /\ UNCHANGED <<input, inShape, valid, validShape, startId, ysize, xsize,
                   output, search_list, val, err>>
    /\ IF searchIdx > 0
       THEN /\ searchIdx' = searchIdx - 1
            /\ sy' = search_list[searchIdx - 1][1]
            /\ sx' = search_list[searchIdx - 1][2]
            /\ cx' = Tlx(search_list[searchIdx - 1][2])
            /\ cy' = Tly(search_list[searchIdx - 1][1])
            /\ pc' = "cell"
            /\ UNCHANGED <<clumpId, y, x>>
       ELSE /\ clumpId' = NextClumpId(clumpId)
            /\ ScanAdvance
            /\ UNCHANGED <<searchIdx, sy, sx, cy, cx>>

\* for cx in range(tlx, brx+1): for cy in range(tly, bry+1)
WindowAdvance ==
    IF cy + 1 <= Bry(sy) THEN /\ cy' = cy + 1
                              /\ cx' = cx
                              /\ pc' = "cell"
    ELSE IF cx + 1 <= Brx(sx) THEN /\ cy' = Tly(sy)
                                   /\ cx' = cx + 1
                                   /\ pc' = "cell"
    ELSE /\ UNCHANGED <<cy, cx>>
         /\ pc' = "pop"

VisitCell ==
    /\ UNCHANGED <<viVars, sizeVars, histVars>>
    /\ pc = "cell"
    /\ UNCHANGED <<input, inShape, valid, validShape, startId, ysize, xsize,
                   clumpId, y, x, val, sy, sx>>
    /\ IF ~FourNeighbour(sy, sx, cy, cx)
       THEN /\ WindowAdvance
            /\ UNCHANGED <<output, search_list, searchIdx, err>>
       ELSE \E r \in ReadValid(cy, cx) :
              IF r = "IndexError"
              THEN /\ pc' = "error"
                   /\ err' = "IndexError"
                   /\ UNCHANGED <<output, search_list, searchIdx, cy, cx>>
              ELSE IF r = "true" /\ Unvisited(cy, cx) /\ input[cy][cx] = val
              THEN /\ output' = MarkVisited(cy, cx)
                   /\ IF searchIdx < xsize * ysize
                      THEN /\ search_list' = [search_list EXCEPT ![searchIdx] = <<cy, cx>>]
                           /\ searchIdx' = searchIdx + 1
                           /\ WindowAdvance
                           /\ err' = "none"
                      ELSE \* the write falls behind the last row of search_list
                           /\ pc' = "error"
                           /\ err' \in {"IndexError", "MemoryCorruption"}
                           /\ UNCHANGED <<search_list, searchIdx, cy, cx>>
              ELSE /\ WindowAdvance
                   /\ UNCHANGED <<output, search_list, searchIdx, err>>

NextClump == ClumpCall \/ ScanPixel \/ PopPixel \/ VisitCell

Values == 1 .. MaxVal

ImageShapes == {sh \in (1 .. MaxY) \X (1 .. MaxX) : sh[1] * sh[2] <= MaxPixels}

\* shapes of the wrong rank
OtherShapes == {<<w>> : w \in 1 .. MaxX} \cup {<<1, h, w>> : h \in 1 .. MaxY, w \in 1 .. MaxX}

StartIds == {Big(k) : k \in 1 .. MaxStartId} \cup {maxUint32, BigInc(BigInc(maxUint32))}

ClumpIdle ==
    /\ ysize = 0 /\ xsize = 0
    /\ output = <<>>
    /\ search_list = <<>>
    /\ searchIdx = 0
    /\ clumpId = startId
    /\ y = 0 /\ x = 0 /\ val = 0
    /\ sy = 0 /\ sx = 0 /\ cy = 0 /\ cx = 0
    /\ pc = "call"
    /\ err = "none"

(***************************************************************************)
(* ValueIndexes                                                            *)
(***************************************************************************)
\* 0-based arrays of length n
Arr(n, f(_)) == [i \in 0 .. (n - 1) |-> f(i)]

Size(arr) == Cardinality(DOMAIN arr)

RECURSIVE SumTo(_, _)
\* arr[0] + ... + arr[i]
SumTo(arr, i) == IF i < 0 THEN 0 ELSE arr[i] + SumTo(arr, i - 1)

RECURSIVE ProdTo(_, _)
ProdTo(arr, i) == IF i < 0 THEN 1 ELSE arr[i] * ProdTo(arr, i - 1)

\* a.size
NElems(shape) == ProdTo(shape, Size(shape) - 1)

\* the coordinates of an array of the given shape
Coords(shape) ==
    {c \in [DOMAIN shape -> 0 .. (MaxDim - 1)] : \A d \in DOMAIN shape : c[d] < shape[d]}

SetMin(S) == CHOOSE m \in S : \A n \in S : m <= n

SetMax(S) == CHOOSE m \in S : \A n \in S : n <= m

Range(f) == {f[i] : i \in DOMAIN f}

\* a.min(), a.max()
ArrMin(arr) == SetMin(Range(arr))

ArrMax(arr) == SetMax(Range(arr))

\* numpy.histogram(a, range=(minval, maxval+1), bins=maxval-minval+1): one unit
\* wide bin per integer of [minval, maxval]
Histogram(arr) ==
    LET minval == ArrMin(arr)
        maxval == ArrMax(arr)
    IN Arr(maxval - minval + 1,
           LAMBDA k : Cardinality({c \in DOMAIN arr : arr[c] = minval + k}))

\* the bins+1 edges minval, minval+1, ..., maxval+1
BinEdges(arr) ==
    LET minval == ArrMin(arr)
        maxval == ArrMax(arr)
    IN Arr(maxval - minval + 2, LAMBDA k : minval + k)

\* faulty variant: the null values are not masked
MaskCountsNone(cnt, edges, nulls) == cnt

\* for val in self.nullVals: maskedCounts[binEdges[:-1]==val] = 0
MaskCounts(cnt, edges, nulls) ==
    [k \in DOMAIN cnt |-> IF edges[k] \in nulls THEN 0 ELSE cnt[k]]

\* the positions a boolean mask (maskedCounts > 0) selects
Kept(masked) == {k \in DOMAIN masked : masked[k] > 0}

\* arr[maskedCounts > 0]: the selected elements in their order.  The mask has
\* one element less than binEdges; its positions are those of binEdges[:-1].
Compress(masked, arr) ==
    LET K == Kept(masked)
    IN Arr(Cardinality(K),
           LAMBDA i : arr[CHOOSE k \in K : Cardinality({j \in K : j < k}) = i])

\* self.counts.cumsum()
CumSum(cnt) == [i \in DOMAIN cnt |-> SumTo(cnt, i)]

\* faulty variant: the counts are not subtracted
StartOfEnd(e, cnt) == e

\* self.end - self.counts
StartOf(e, cnt) == [i \in DOMAIN e |-> e[i] - cnt[i]]

\* valLU filled with maxUint32, then valLU[values - values[0]] = range(len(values))
LookupTable(vals) ==
    Arr(ArrMax(vals) - ArrMin(vals) + 1,
        LAMBDA k : IF \E i \in DOMAIN vals : vals[i] - vals[0] = k
                   THEN Big(CHOOSE i \in DOMAIN vals : vals[i] - vals[0] = k)
                   ELSE maxUint32)

\* the ranks that have a _valndxFuncN
SupportedRank(n) == n \in 1 .. 6

\* ValueIndexes.__init__ up to the call of _valndxFuncN
Construct ==
    /\ UNCHANGED <<clumpVars, sizeVars, histVars>>
    /\ viPc = "new"
    /\ UNCHANGED <<a, aShape, nullVals, queried, qval, ndx>>
    /\ LET hist == Histogram(a)
           binEdges == BinEdges(a)
           maskedCounts == MaskCounts(hist, binEdges, nullVals)
           vals == Compress(maskedCounts, binEdges)
           cnts == Compress(maskedCounts, maskedCounts)
           totalCounts == SumTo(cnts, Size(cnts) - 1)
           ndim == Size(aShape)
       IN /\ values' = vals
          /\ counts' = cnts
          /\ nDims' = ndim
          /\ indexes' = Arr(totalCounts, LAMBDA m : Arr(ndim, LAMBDA i : 0))
          /\ end' = CumSum(cnts)
          /\ start' = StartOf(CumSum(cnts), cnts)
          /\ IF Size(vals) > 0
             THEN IF BigLt(maxUint32, Big(ArrMax(vals) - ArrMin(vals) + 1))
                  THEN /\ viPc' = "error"
                       /\ viErr' = "RangeError"
                       /\ UNCHANGED <<valLU, currentIndex, curridx>>
                  ELSE /\ valLU' = LookupTable(vals)
                       /\ currentIndex' = StartOf(CumSum(cnts), cnts)
                       /\ IF SupportedRank(ndim)
                          THEN /\ curridx' = Arr(ndim, LAMBDA i : 0)
                               /\ viPc' = "fill"
                               /\ viErr' = "none"
                          ELSE /\ viPc' = "error"
                               /\ viErr' = "ShapeMismatchError"
                               /\ UNCHANGED curridx
             ELSE /\ viPc' = "built"
                  /\ viErr' = "none"
                  /\ UNCHANGED <<valLU, currentIndex, curridx>>

\* faulty variant: the first dimension varies fastest
RECURSIVE CarryFirst(_, _, _)
CarryFirst(c, shape, idx) ==
    LET d == Size(shape) - 1 - idx
    IN IF idx < 0 THEN [cur |-> c, idx |-> idx]
       ELSE IF c[d] + 1 >= shape[d]
            THEN CarryFirst([c EXCEPT ![d] = 0], shape, idx - 1)
            ELSE [cur |-> [c EXCEPT ![d] = c[d] + 1], idx |-> idx]

\* the update of curridx: increment dimension idx, carrying into idx - 1
RECURSIVE Carry(_, _, _)
Carry(c, shape, idx) ==
    IF idx < 0 THEN [cur |-> c, idx |-> idx]
    ELSE IF c[idx] + 1 >= shape[idx]
         THEN Carry([c EXCEPT ![idx] = 0], shape, idx - 1)
         ELSE [cur |-> [c EXCEPT ![idx] = c[idx] + 1], idx |-> idx]

\* faulty variant: the cursor of a value is not advanced
NextFreeStuck(m) == m

\* currentIndex[j] = m + 1
NextFree(m) == m + 1

\* one iteration of the while loop of _valndxFunc1 .. _valndxFunc6
ValndxStep ==
    /\ UNCHANGED <<clumpVars, sizeVars, histVars>>
    /\ viPc = "fill"
    /\ UNCHANGED <<a, aShape, nullVals, values, counts, start, end, nDims, valLU,
                   viErr, queried, qval, ndx>>
    /\ LET arrVal == a[curridx]
           minVal == ArrMin(values)
           maxVal == ArrMax(values)
           inRange == arrVal >= minVal /\ arrVal <= maxVal
           j == IF inRange THEN valLU[arrVal - minVal] ELSE BigZero
           found == inRange /\ BigLt(j, maxUint32)
           m == currentIndex[j[2]]
           next == Carry(curridx, aShape, nDims - 1)
       IN /\ IF found
             THEN /\ indexes' = [indexes EXCEPT ![m] = curridx]
                  /\ currentIndex' = [currentIndex EXCEPT ![j[2]] = NextFree(m)]
             ELSE UNCHANGED <<indexes, currentIndex>>
          /\ curridx' = next.cur
          /\ viPc' = IF next.idx < 0 THEN "built" ELSE "fill"

\* faulty variant: a value that is not listed gets the whole packed array
SliceBoundsAll(v) ==
    LET valNdx == {i \in DOMAIN values : values[i] = v}
    IN IF valNdx = {} THEN <<0, Size(indexes)>>
       ELSE <<start[SetMin(valNdx)], end[SetMin(valNdx)]>>

\* the start and end getIndexes slices indexes with
SliceBounds(v) ==
    LET valNdx == {i \in DOMAIN values : values[i] = v}
    IN IF valNdx = {} THEN <<0, 0>>
       ELSE <<start[SetMin(valNdx)], end[SetMin(valNdx)]>>

\* ValueIndexes.getIndexes(val)
GetIndexes ==
    /\ UNCHANGED <<clumpVars, sizeVars, histVars>>
    /\ viPc = "built"
    /\ UNCHANGED <<a, aShape, nullVals, values, counts, start, end, nDims, indexes,
                   valLU, currentIndex, curridx, viPc, viErr>>
    /\ \E v \in 0 .. (MaxVal + 1) :
         LET b == SliceBounds(v)
         IN /\ qval' = v
            /\ queried' = TRUE
            /\ ndx' = Arr(nDims, LAMBDA i : Arr(b[2] - b[1], LAMBDA k : indexes[b[1] + k][i]))

NextVI == Construct \/ ValndxStep \/ GetIndexes

(***************************************************************************)
(* clumpsizes and clumpsizeimg                                             *)
(***************************************************************************)
\* numpy.bincount(clumps.flatten()): one count per id of 0 .. max(clumps)
BinCount(img) ==
    LET ids == {img[r][c] : r \in DOMAIN img, c \in DOMAIN img[0]}
    IN Arr(SetMax(ids) + 1,
           LAMBDA k : Cardinality({rc \in (DOMAIN img) \X (DOMAIN img[0]) : img[rc[1]][rc[2]] = k}))

\* counts[nullVal] can be subscripted (a negative subscript counts from the end)
NullInTable(cnt, nv) == nv < Size(cnt) /\ nv >= -Size(cnt)

\* counts[nullVal] = nullVal
SetNullCount(cnt, nv) ==
    [cnt EXCEPT ![IF nv < 0 THEN Size(cnt) + nv ELSE nv] = nv]

\* clumpsizes(clumps, nullVal)
ClumpSizes ==
    /\ UNCHANGED <<clumpVars, viVars, histVars>>
    /\ szPc = "call"
    /\ UNCHANGED <<clumps, nullVal, sizeimg>>
    /\ IF NullInTable(BinCount(clumps), nullVal)
       THEN /\ sizes' = SetNullCount(BinCount(clumps), nullVal)
            /\ szPc' = "sized"
            /\ szErr' = "none"
       ELSE /\ szPc' = "error"
            /\ szErr' = "IndexError"
            /\ UNCHANGED sizes

\* clumpsizeimg(clumps, nullVal)
ClumpSizeImg ==
    /\ UNCHANGED <<clumpVars, viVars, histVars>>
    /\ szPc = "call"
    /\ UNCHANGED <<clumps, nullVal>>
    /\ IF NullInTable(BinCount(clumps), nullVal)
       THEN /\ sizes' = SetNullCount(BinCount(clumps), nullVal)
            /\ sizeimg' = [r \in DOMAIN clumps |-> [c \in DOMAIN clumps[r] |->
                              SetNullCount(BinCount(clumps), nullVal)[clumps[r][c]]]]
            /\ szPc' = "imaged"
            /\ szErr' = "none"
       ELSE /\ szPc' = "error"
            /\ szErr' = "IndexError"
            /\ UNCHANGED <<sizes, sizeimg>>

NextSizes == ClumpSizes \/ ClumpSizeImg

SizesIdle ==
    /\ sizes = <<>> /\ sizeimg = <<>>
    /\ szPc = "call"
    /\ szErr = "none"

\* no clump image is being sized
SizesNone ==
    /\ clumps = <<>> /\ nullVal = 0
    /\ SizesIdle

(***************************************************************************)
(* ValueIndexes.__init__ on arrays too large to write down: the array is   *)
(* given by the non-empty bins of its histogram, with int64 counts.        *)
(***************************************************************************)
RECURSIVE BigSumTo(_, _)
\* arr[0] + ... + arr[i]
BigSumTo(arr, i) == IF i < 0 THEN BigZero ELSE BigAdd(arr[i], BigSumTo(arr, i - 1))

\* the bins left by maskedCounts[binEdges[:-1]==val] = 0 and maskedCounts > 0,
\* in their order
KeptBins(bins, nulls) ==
    LET K == {k \in DOMAIN bins : bins[k].val \notin nulls}
    IN Arr(Cardinality(K),
           LAMBDA i : bins[CHOOSE k \in K : Cardinality({j \in K : j < k}) = i])

\* numLookups > maxUint32
LookupsTooMany(n) == BigLt(maxUint32, n)

\* ValueIndexes.__init__ up to the call of _valndxFuncN
ConstructSizes ==
    /\ UNCHANGED <<clumpVars, viVars, sizeVars>>
    /\ hPc = "new"
    /\ UNCHANGED <<hBins, hNulls, hRow>>
    /\ LET kept == KeptBins(hBins, hNulls)
           vals == [i \in DOMAIN kept |-> kept[i].val]
           cnts == [i \in DOMAIN kept |-> kept[i].count]
           ends == [i \in DOMAIN cnts |-> BigSumTo(cnts, i)]
           starts == [i \in DOMAIN cnts |-> BigSub(ends[i], cnts[i])]
           numLookups == BigInc(BigSub(vals[Size(vals) - 1], vals[0]))
       IN /\ hValues' = vals
          /\ hCounts' = cnts
          /\ hRows' = BigSumTo(cnts, Size(cnts) - 1)
          /\ hEnd' = ends
          /\ hStart' = starts
          /\ IF Size(vals) > 0
             THEN IF LookupsTooMany(numLookups)
                  THEN /\ hPc' = "error"
                       /\ hErr' = "RangeError"
                       /\ UNCHANGED <<hLookups, hCursor>>
                  ELSE /\ hLookups' = numLookups
                       /\ hCursor' = [i \in DOMAIN starts |-> ToUint32(starts[i])]
                       /\ hPc' = "fill"
                       /\ hErr' = "none"
             ELSE /\ hPc' = "built"
                  /\ hErr' = "none"
                  /\ UNCHANGED <<hLookups, hCursor>>

\* an iteration of the while loop of _valndxFuncN that finds an element of
\* the j-th value: m = currentIndex[j]; indexes[m, i] = curridx[i];
\* currentIndex[j] = m + 1
WriteRow ==
    /\ UNCHANGED <<clumpVars, viVars, sizeVars>>
    /\ hPc = "fill"
    /\ UNCHANGED <<hBins, hNulls, hValues, hCounts, hStart, hEnd, hRows, hLookups, hErr>>
    /\ \E j \in DOMAIN hValues :
         /\ hRow' = hCursor[j]
         /\ hCursor' = [hCursor EXCEPT ![j] = ToUint32(BigInc(hCursor[j]))]
         /\ hPc' = "built"

NextHist == ConstructSizes \/ WriteRow

(***************************************************************************)
(* Inputs and specifications.                                              *)
(***************************************************************************)
ArrayValues == 0 .. MaxVal

\* arrays of the higher ranks: one element, for each rank up to the first one
\* without a _valndxFuncN, and a 2 x 2 array spread over six dimensions
HighRankShapes ==
    {Arr(r, LAMBDA i : 1) : r \in 4 .. 7} \cup {Arr(6, LAMBDA i : IF i \in {0, 5} THEN 2 ELSE 1)}

\* a 0-d array: no dimension, one element
ScalarShape == Arr(0, LAMBDA i : 1)

ArrayShapes ==
    {sh \in UNION {[0 .. (r - 1) -> 1 .. MaxDim] : r \in 1 .. MaxRank} : NElems(sh) <= MaxElems}
    \cup HighRankShapes \cup {ScalarShape}

VIIdle ==
    /\ values = <<>> /\ counts = <<>> /\ start = <<>> /\ end = <<>>
    /\ nDims = 0
    /\ indexes = <<>> /\ valLU = <<>> /\ currentIndex = <<>> /\ curridx = <<>>
    /\ viPc = "new"
    /\ viErr = "none"
    /\ queried = FALSE
    /\ qval = 0
    /\ ndx = <<>>

\* no array is being indexed
VINone ==
    /\ a = <<>> /\ aShape = <<>> /\ nullVals = {}
    /\ VIIdle

\* sizes around the capacity of a uint32
HugeNumbers ==
    {Big(k) : k \in 0 .. 2} \cup {BigSub(maxUint32, Big(1)), maxUint32, BigInc(maxUint32)}

HistIdle ==
    /\ hValues = <<>> /\ hCounts = <<>> /\ hStart = <<>> /\ hEnd = <<>>
    /\ hRows = BigZero /\ hLookups = BigZero
    /\ hCursor = <<>>
    /\ hRow = BigZero
    /\ hPc = "new"
    /\ hErr = "none"

\* no histogram is being indexed
HistNone ==
    /\ hBins = <<>> /\ hNulls = {}
    /\ HistIdle

\* no image is being clumped
ClumpNone ==
    /\ input = <<>> /\ inShape = <<>> /\ valid = <<>> /\ validShape = <<>>
    /\ startId = Big(1)
    /\ ClumpIdle

InitVI ==
    /\ aShape \in ArrayShapes
    /\ a \in [Coords(aShape) -> ArrayValues]
    /\ nullVals \in SUBSET ArrayValues
    /\ VIIdle
    /\ ClumpNone
    /\ SizesNone
    /\ HistNone

SpecVI == InitVI /\ [][NextVI]_vars

\* a 2-d input with a mask of the same shape
InitClump ==
    /\ inShape \in ImageShapes
    /\ validShape = inShape
    /\ input \in Array2D(inShape, Values)
    /\ valid \in Array2D(validShape, BOOLEAN)
    /\ startId \in StartIds
    /\ ClumpIdle
    /\ VINone
    /\ SizesNone
    /\ HistNone

SpecClump == InitClump /\ [][NextClump]_vars

\* any input and mask: ranks 1 to 3 for the input, 1 and 2 for the mask, and
\* 2-d shapes that need not agree
InitClumpAny ==
    /\ inShape \in ImageShapes \cup OtherShapes
    /\ validShape \in ImageShapes \cup {<<w>> : w \in 1 .. MaxX}
    /\ input \in (IF Len(inShape) = 2 THEN Array2D(inShape, Values) ELSE {<<>>})
    /\ valid \in (IF Len(validShape) = 2 THEN Array2D(validShape, BOOLEAN) ELSE {<<>>})
    /\ startId \in {Big(k) : k \in 1 .. MaxStartId}
    /\ ClumpIdle
    /\ VINone
    /\ SizesNone
    /\ HistNone

SpecClumpAny == InitClumpAny /\ [][NextClump]_vars

InitSizes ==
    /\ \E sh \in ImageShapes : clumps \in Array2D(sh, 0 .. MaxLabelId)
    /\ nullVal \in 0 .. (MaxLabelId + 1)
    /\ SizesIdle
    /\ ClumpNone
    /\ VINone
    /\ HistNone

\* histograms of 1 .. MaxBins non-empty bins with ascending values
InitHist ==
    /\ \E n \in 1 .. MaxBins :
         hBins \in {b \in [0 .. (n - 1) -> [val : HugeNumbers, count : HugeNumbers \ {BigZero}]] :
                       \A i \in 0 .. (n - 2) : BigLt(b[i].val, b[i + 1].val)}
    /\ hNulls \in {{}} \cup {{v} : v \in HugeNumbers}
    /\ HistIdle
    /\ ClumpNone
    /\ VINone
    /\ SizesNone

SpecHist == InitHist /\ [][NextHist]_vars

SpecSizes == InitSizes /\ [][NextSizes]_vars

(***************************************************************************)
(* Properties of clump.                                                    *)
(***************************************************************************)
Pixels == {<<py, px>> : py \in 0 .. (ysize - 1), px \in 0 .. (xsize - 1)}

SameShape == Len(inShape) = 2 /\ validShape = inShape

ValidPixels == {p \in Pixels : valid[p[1]][p[2]]}

Abs(n) == IF n < 0 THEN -n ELSE n

\* up/down/left/right
Adjacent4(p, q) == Abs(p[1] - q[1]) + Abs(p[2] - q[2]) = 1

RECURSIVE Grow(_)
Grow(S) ==
    LET N == S \cup {q \in ValidPixels : \E p \in S : /\ Adjacent4(p, q)
                                                      /\ input[q[1]][q[2]] = input[p[1]][p[2]]}
    IN IF N = S THEN S ELSE Grow(N)

\* the valid pixels joined to p by a path of valid, equal valued, 4-adjacent pixels
Region(p) == Grow({p})

Regions == {Region(p) : p \in ValidPixels}

Label(p) == output[p[1]][p[2]]

Returned == pc = "done" /\ SameShape

\* C1: when clump returns, two valid pixels carry the same label exactly when a
\* path of valid, equal valued, 4-adjacent pixels joins them.
LabelingSoundness ==
    Returned => \A p \in ValidPixels : \A q \in ValidPixels :
                    (Label(p) = Label(q)) <=> (q \in Region(p))

\* a returned labelling with two distinct joined pixels under one label and two
\* valid pixels that no path joins under different labels
LabelingSoundnessWitness ==
    /\ Returned
    /\ \E p \in ValidPixels : \E q \in ValidPixels :
         p # q /\ q \in Region(p) /\ Label(p) = Label(q)
    /\ \E p \in ValidPixels : \E q \in ValidPixels :
         q \notin Region(p) /\ Label(p) # Label(q)

\* C2: no invalid pixel is ever labelled, and when clump returns every invalid
\* pixel has label 0 and every valid pixel has a label of at least 1.
LabelingCoverage ==
    /\ (SameShape /\ pc # "call") =>
           \A p \in Pixels : ~valid[p[1]][p[2]] => Label(p) = BigZero
    /\ Returned => \A p \in Pixels :
                      IF valid[p[1]][p[2]] THEN BigLe(Big(1), Label(p))
                                           ELSE Label(p) = BigZero

LabelingCoverageWitness ==
    /\ Returned
    /\ \E p \in Pixels : valid[p[1]][p[2]] /\ BigLe(Big(1), Label(p))
    /\ \E p \in Pixels : ~valid[p[1]][p[2]] /\ Label(p) = BigZero

MaxLabel == CHOOSE m \in {Label(p) : p \in Pixels} : \A p \in Pixels : BigLe(Label(p), m)

\* C5: the id clump returns is startId plus the number of clumps; with startId 1
\* it is 1 + max(labels), and it is startId when no pixel is valid.
NextIdCount ==
    Returned => /\ clumpId = BigAddSmall(startId, Cardinality(Regions))
                /\ (startId = Big(1) => clumpId = BigInc(MaxLabel))
                /\ (ValidPixels = {} => clumpId = startId)

NextIdCountWitness ==
    /\ Returned
    /\ startId = Big(1)
    /\ Cardinality(Regions) >= 2
    /\ Cardinality(ValidPixels) > Cardinality(Regions)
    /\ clumpId = Big(3)

(***************************************************************************)
(* Properties of ValueIndexes.                                             *)
(***************************************************************************)
Built == viPc = "built"

\* the positions of the array that hold v
Positions(v) == {c \in DOMAIN a : a[c] = v}

\* the values that occur in the array and are not null values
Tracked == Range(a) \ nullVals

\* the k-th coordinate tuple of the result of getIndexes
ResultRow(k) == [d \in DOMAIN ndx |-> ndx[d][k]]

\* the number of coordinate tuples of the result of getIndexes
ResultRows == IF DOMAIN ndx = {} THEN 0 ELSE Size(ndx[0])

\* p comes before q in row-major order (last dimension fastest)
RowMajorBefore(p, q) ==
    \E d \in DOMAIN p : p[d] < q[d] /\ \A e \in DOMAIN p : e < d => p[e] = q[e]

IndexesAbsent ==
    (Built /\ queried /\ qval \notin Tracked) =>
        /\ DOMAIN ndx = DOMAIN aShape
        /\ \A d \in DOMAIN ndx : Size(ndx[d]) = 0

\* a query for a null value that the array holds, next to a tracked value
IndexesAbsentWitness ==
    /\ Built /\ queried
    /\ qval \in nullVals /\ qval \in Range(a)
    /\ Tracked # {}
    /\ DOMAIN ndx = DOMAIN aShape
    /\ nDims >= 2

\* C6: counts, start and end after construction: counts[i] elements equal
\* values[i], the counts add up to the number of non-null elements, and the
\* slices [start[i], end[i]) tile the packed array in the order of values.
SlicesTile ==
    Built =>
        /\ DOMAIN counts = DOMAIN values /\ DOMAIN start = DOMAIN values
        /\ DOMAIN end = DOMAIN values
        /\ \A i \in DOMAIN values : counts[i] = Cardinality(Positions(values[i]))
        /\ SumTo(counts, Size(counts) - 1) = Cardinality({c \in DOMAIN a : a[c] \notin nullVals})
        /\ \A i \in DOMAIN values : end[i] - start[i] = counts[i]
        /\ \A i \in DOMAIN values : IF i = 0 THEN start[i] = 0 ELSE start[i] = end[i - 1]
        /\ Size(values) > 0 => end[Size(values) - 1] = Size(indexes)

SlicesTileWitness ==
    /\ Built
    /\ Size(values) >= 2
    /\ \E i \in DOMAIN values : counts[i] >= 2
    /\ \E c \in DOMAIN a : a[c] \in nullVals
    /\ start[1] > 0

\* C7: values is strictly ascending and holds exactly the distinct values of
\* the array that are not null values.
ValuesAscending ==
    Built =>
        /\ \A i \in DOMAIN values : \A j \in DOMAIN values : i < j => values[i] < values[j]
        /\ Range(values) = Tracked
        /\ Size(values) = Cardinality(Tracked)

\* two tracked values around a null value that the array holds
ValuesAscendingWitness ==
    /\ Built
    /\ Size(values) = 2
    /\ \E c \in DOMAIN a : a[c] \in nullVals /\ values[0] < a[c] /\ a[c] < values[1]

PixelsWithLabel(k) ==
    Cardinality({rc \in (DOMAIN clumps) \X (DOMAIN clumps[0]) : clumps[rc[1]][rc[2]] = k})

\* C9: the table clumpsizes returns has 0 for the null label, whatever the
\* number of pixels that carry it, and the pixel count for every other label.
NullSizeZero ==
    szPc \in {"sized", "imaged"} =>
        /\ sizes[nullVal] = 0
        /\ \A k \in DOMAIN sizes : k # nullVal => sizes[k] = PixelsWithLabel(k)

\* some pixel of the label array has been given an id
SomeLabelled ==
    /\ pc # "call"
    /\ Len(inShape) = 2
    /\ \E r \in DOMAIN output : \E c \in DOMAIN output[r] : output[r][c] # BigZero

\* C10: when the shapes of input and mask differ or one of them is not 2-d,
\* clump labels no pixel and returns no label array.
MismatchRejected ==
    ~SameShape => (pc # "done" /\ ~SomeLabelled)

(***************************************************************************)
(* Properties of the argument checks of ValueIndexes.                      *)
(***************************************************************************)
\* C11: the construction of a ValueIndexes for an array whose rank is outside
\* 1..6 ends in a shape error and yields no index, whatever the array holds and
\* whatever the null values are.
RankRejected ==
    (viPc # "new" /\ ~SupportedRank(Size(aShape))) =>
        (viPc = "error" /\ viErr = "ShapeMismatchError")

\* the bins of the values that are not null values
TrackedBins == {k \in DOMAIN hBins : hBins[k].val \notin hNulls}

\* the number of tracked elements of the array
TrackedElements == BigSumTo([i \in DOMAIN hBins |->
                               IF i \in TrackedBins THEN hBins[i].count ELSE BigZero],
                            Size(hBins) - 1)

\* max(values) - min(values) + 1
TrackedRange ==
    LET lo == CHOOSE k \in TrackedBins : \A j \in TrackedBins : k <= j
        hi == CHOOSE k \in TrackedBins : \A j \in TrackedBins : j <= k
    IN IF TrackedBins = {} THEN BigZero
       ELSE BigInc(BigSub(hBins[hi].val, hBins[lo].val))

\* C12: the construction fails with a range error when the range of the tracked
\* values or the number of tracked elements exceeds 2^32 - 1, and an index it
\* does build has no cursor or row position reduced modulo 2^32.
RangeRejected ==
    hPc # "new" =>
        /\ (BigLt(maxUint32, TrackedRange) \/ BigLt(maxUint32, TrackedElements)) =>
               (hPc = "error" /\ hErr = "RangeError")
        /\ hPc = "fill" => \A i \in DOMAIN hCursor : hCursor[i] = hStart[i]
        /\ (hPc = "built" /\ hValues # <<>>) =>
               \E i \in DOMAIN hStart : BigLe(hStart[i], hRow) /\ BigLt(hRow, hEnd[i])

(***************************************************************************)
(* Properties of the search stack and of the labels of clump.              *)
(***************************************************************************)
\* the step pushes the seed pixel (y, x)
PushesSeed == pc = "scan" /\ pc' = "pop"

\* the step pushes the window cell (cy, cx), or fails writing it
PushesCell == pc = "cell" /\ (searchIdx' = searchIdx + 1 \/ pc' = "error")

\* C13: a pixel is pushed only while it is unlabelled and is labelled by the
\* push, the stack never holds more than xsize*ysize entries and no entry is
\* written outside search_list, for every image, mask and start id >= 1.
PushOnceStep ==
    /\ PushesSeed => (Unvisited(y, x) /\ output'[y][x] # BigZero)
    /\ PushesCell => (Unvisited(cy, cx) /\ output'[cy][cx] # BigZero)
    /\ searchIdx' <= xsize' * ysize'
    /\ ~(pc = "cell" /\ pc' = "error")

PushOnce == [][PushOnceStep]_vars

\* p comes before q in the row-major scan, or is q
ScannedBefore(p, q) == p[1] < q[1] \/ (p[1] = q[1] /\ p[2] <= q[2])

\* the pixel of region R the scan meets first
FirstPixel(R) == CHOOSE p \in R : \A q \in R : ScannedBefore(p, q)

\* the position of region R when the regions are ordered by their first pixel
RegionOrder(R) ==
    Cardinality({S \in Regions : ScannedBefore(FirstPixel(S), FirstPixel(R))})

LabelsInScanOrder ==
    Returned => \A p \in ValidPixels :
                    Label(p) = BigAddSmall(startId, RegionOrder(Region(p)) - 1)

LabelKept ==
    (pc # "call" /\ SameShape) =>
        \A p \in Pixels : Label(p) # BigZero => output'[p[1]][p[2]] = Label(p)

\* C14: the k-th clump in the order of the row-major position of its first
\* pixel is labelled startId + k - 1, and a label that is nonzero is never
\* changed by a later step.
LabelOrder == [][LabelKept /\ LabelsInScanOrder']_vars

(***************************************************************************)
(* Properties of the cursors of the fill pass of ValueIndexes.             *)
(***************************************************************************)
\* on arrays written out in full: an element of the tracked value i is written
\* at row currentIndex[i] of the slice of i and moves that cursor by one, any
\* other element changes neither the cursors nor the packed array
FillStep ==
    viPc = "fill" =>
        LET K == {i \in DOMAIN values : values[i] = a[curridx]}
        IN IF K # {}
           THEN LET i == CHOOSE i \in K : TRUE
                    m == currentIndex[i]
                IN /\ start[i] <= m /\ m < end[i]
                   /\ indexes' = [indexes EXCEPT ![m] = curridx]
                   /\ currentIndex' = [currentIndex EXCEPT ![i] = m + 1]
           ELSE indexes' = indexes /\ currentIndex' = currentIndex

CursorBounds ==
    /\ (viPc \in {"fill", "built"} /\ Size(values) > 0) =>
           \A i \in DOMAIN values : start[i] <= currentIndex[i] /\ currentIndex[i] <= end[i]
    /\ (viPc = "built" /\ Size(values) > 0) => currentIndex = end

CursorsSmall == [][FillStep /\ CursorBounds']_vars

\* the cursors lie in the slices of their values
HistCursorBounds ==
    hPc = "fill" =>
        \A i \in DOMAIN hCursor : BigLe(hStart[i], hCursor[i]) /\ BigLe(hCursor[i], hEnd[i])

\* the row written for the value whose cursor moves lies in the slice of that value
HistFillStep ==
    (hPc = "fill" /\ hPc' = "built") =>
        \A j \in DOMAIN hCursor :
            hCursor'[j] # hCursor[j] =>
                /\ BigLe(hStart[j], hRow') /\ BigLt(hRow', hEnd[j])
                /\ BigLe(hStart[j], hCursor'[j]) /\ BigLe(hCursor'[j], hEnd[j])

\* C15: during the fill pass every cursor stays within start[i] .. end[i], every
\* coordinate row of value i is written at a row of [start[i], end[i]) and the
\* cursors finish at end; null and out-of-range elements change nothing.
CursorsInSlice == [][HistFillStep /\ HistCursorBounds']_vars

=============================================================================
